---- MODULE Spec2Model ----
(***************************************************************************)
(* Model of pynetinstall's flashing engine (src/pynetinstall/flash.py):    *)
(* Flasher.load_config / run / do / do_file / do_files /                   *)
(* resolve_file_data and FlashInterface.flash_once /                       *)
(* flash_until_stopped, against a nondeterministic Transport               *)
(* (UDPConnection) and File Provider (plugin).                             *)
(*                                                                         *)
(* Python's state[0], state[1] are state[1], state[2] here.                *)
(* Byte counts are scaled: MAX_BYTES ranges over 1..MaxChunk and file      *)
(* sizes over 0..MaxFileSize.                                              *)
(***************************************************************************)
EXTENDS Integers, Sequences, FiniteSets, TLC

\* ------------------------------------------------------------------ bounds
MaxChunk == 2
MaxFileSize == 3
MaxIters == 4

\* ------------------------------------------------------------- data model
Boards == {"b1", "b2"}
NoBoard == "None"

Modes == {"once", "until_stopped"}

\* acknowledgment tokens a board can put in a frame's payload
Tokens == {"YACK\n", "STRT", "RETR", "WTRM"}
\* the `response=None` default of Flasher.do
NoResponse == "None"

\* state pairs a response frame can carry
FrameStates == {<<0, 0>>, <<1, 1>>}

\* what Flasher.read() can give: no frame (res is None), a raised OSError,
\* or a frame; a frame shorter than the 14 byte header has an empty res[14:]
NoFrame == [kind |-> "none", short |-> FALSE, payload |-> "", state |-> <<0, 0>>]
ReadFault == [kind |-> "oserror", short |-> FALSE, payload |-> "", state |-> <<0, 0>>]
Frames ==
    [kind : {"frame"}, short : {FALSE}, payload : Tokens, state : FrameStates]
    \cup [kind : {"frame"}, short : {TRUE}, payload : {""}, state : FrameStates]
ReadResults == {NoFrame, ReadFault} \cup Frames
\* what the read inside wait() is given: its result is dropped, so a well-formed
\* and a short frame stand for all frames
WaitResults ==
    {r \in ReadResults : r.kind = "frame" => r.state = <<0, 0>> /\ r.payload \in {"RETR", ""}}
\* the reads a step gets to after conn.write did w
WaitAfter(w) == IF w = "OSError" THEN {NoFrame} ELSE WaitResults
ReadAfter(w, r1) == IF w = "OSError" \/ r1.kind = "oserror" THEN {NoFrame} ELSE ReadResults
WriteResults == {"ok", "OSError"}

\* res[14:]
Payload(res) == IF res.short THEN "" ELSE res.payload

\* what a checked read returned, seen from a step that expects the token `expected`
Seen(expected, res) ==
    IF res.kind = "none" THEN "NoFrame"
    ELSE IF res.kind = "oserror" THEN "OSError"
    ELSE IF res.short THEN "short"
    ELSE IF res.payload = expected THEN "ack" ELSE "nak"

\* what is handed to Flasher.write
Command(text) == [kind |-> "cmd", text |-> text, name |-> "", size |-> 0]
FileHeader(name, size) == [kind |-> "header", text |-> "FILE\n", name |-> name, size |-> size]
Chunk(stream, n) == [kind |-> "chunk", text |-> "", name |-> stream, size |-> n]

OFFR == Command("OFFR\n\n")
EMPTY == Command("")
FINALIZE == Command("FILE\n")
TERM == Command("TERM\nInstallation successful\n")

FirmwareName == "routeros.npk"
ConfigName == "config.rsc"
AutorunName == "autorun.scr"

NoFile == [name |-> "", size |-> 0, avail |-> 0]

Min(a, b) == IF a < b THEN a ELSE b

\* the byte counts a stream can hold when its declared size is size: exactly
\* that many, one fewer, or one more
Avail(size) == {a \in 0..MaxFileSize : a - size <= 1 /\ size - a <= 1}

\* --------------------------------------------------- Flasher.load_config
\* cparser.read() found the file / import_module+getattr worked / plug(config=...) returned.
\* The except clause formats `plug`, which is bound only once getattr returned.
load_config(readOk, importOk, ctorOk) ==
    LET plugBound == importOk
        handler == IF plugBound THEN "FatalError" ELSE "UnboundLocalError"
    IN  IF ~readOk THEN [exc |-> "FatalError", cause |-> "config_not_found"]
        ELSE IF ~importOk THEN [exc |-> handler, cause |-> "import_error"]
        ELSE IF ~ctorOk THEN [exc |-> handler, cause |-> "ctor_error"]
        ELSE [exc |-> "none", cause |-> "-"]

\* ------------------------------------------------------------ Flasher.do
\* the None check left out: a missing frame is handled like any other
IsNone_Skipped(res) == FALSE

\* `res is None`
IsNone(res) == res.kind = "none"

\* `response == res[14:]`
AckMatches(response, res) == response = Payload(res)

\* do without `self.state = new_state`: the pair of the accepted frame is dropped
do_KeepLocalState(st, data, response, w, r1, r2) ==
    LET s1 == <<st[1], st[2] + 1>>
        s2 == <<s1[1] + 1, s1[2]>>
    IN  IF w = "OSError"
        THEN [state |-> s1, sent |-> <<>>, exc |-> "OSError", cause |-> "write",
              reads |-> 0, ok |-> FALSE]
        ELSE IF response = NoResponse
        THEN [state |-> s2, sent |-> <<data>>, exc |-> "none", cause |-> "-",
              reads |-> 0, ok |-> TRUE]
        ELSE IF r1.kind = "oserror"
        THEN [state |-> s2, sent |-> <<data>>, exc |-> "OSError", cause |-> "wait",
              reads |-> 1, ok |-> FALSE]
        ELSE IF r2.kind = "oserror"
        THEN [state |-> s2, sent |-> <<data>>, exc |-> "OSError", cause |-> "read",
              reads |-> 2, ok |-> FALSE]
        ELSE IF r2.kind = "none"
        THEN [state |-> s2, sent |-> <<data>>, exc |-> "AbortFlashing", cause |-> "no_response",
              reads |-> 2, ok |-> FALSE]
        ELSE [state |-> s2, sent |-> <<data>>, exc |-> "none", cause |-> "-",
              reads |-> 2, ok |-> response = Payload(r2)]

\* do without `self.wait()`: the only read is the checked one
do_SingleRead(st, data, response, w, r1, r2) ==
    LET s1 == <<st[1], st[2] + 1>>
        s2 == <<s1[1] + 1, s1[2]>>
    IN  IF w = "OSError"
        THEN [state |-> s1, sent |-> <<>>, exc |-> "OSError", cause |-> "write",
              reads |-> 0, ok |-> FALSE]
        ELSE IF response = NoResponse
        THEN [state |-> s2, sent |-> <<data>>, exc |-> "none", cause |-> "-",
              reads |-> 0, ok |-> TRUE]
        ELSE IF r2.kind = "oserror"
        THEN [state |-> s2, sent |-> <<data>>, exc |-> "OSError", cause |-> "read",
              reads |-> 1, ok |-> FALSE]
        ELSE IF r2.kind = "none"
        THEN [state |-> s2, sent |-> <<data>>, exc |-> "AbortFlashing", cause |-> "no_response",
              reads |-> 1, ok |-> FALSE]
        ELSE [state |-> r2.state, sent |-> <<data>>, exc |-> "none", cause |-> "-",
              reads |-> 1, ok |-> response = Payload(r2)]

\* One call of do(data, response) from state st; w is what conn.write does,
\* r1 what the read inside wait() gives, r2 what the checked read gives.
\* ok is FALSE when do falls off its end (returns None instead of True).
do(st, data, response, w, r1, r2) ==
    LET s1 == <<st[1], st[2] + 1>>
        s2 == <<s1[1] + 1, s1[2]>>
    IN  IF w = "OSError"
        THEN [state |-> s1, sent |-> <<>>, exc |-> "OSError", cause |-> "write",
              reads |-> 0, ok |-> FALSE]
        ELSE IF response = NoResponse
        THEN [state |-> s2, sent |-> <<data>>, exc |-> "none", cause |-> "-",
              reads |-> 0, ok |-> TRUE]
        ELSE IF r1.kind = "oserror"
        THEN [state |-> s2, sent |-> <<data>>, exc |-> "OSError", cause |-> "wait",
              reads |-> 1, ok |-> FALSE]
        ELSE IF r2.kind = "oserror"
        THEN [state |-> s2, sent |-> <<data>>, exc |-> "OSError", cause |-> "read",
              reads |-> 2, ok |-> FALSE]
        ELSE IF IsNone(r2)
        THEN [state |-> s2, sent |-> <<data>>, exc |-> "AbortFlashing", cause |-> "no_response",
              reads |-> 2, ok |-> FALSE]
        ELSE [state |-> r2.state, sent |-> <<data>>, exc |-> "none", cause |-> "-",
              reads |-> 2, ok |-> AckMatches(response, r2)]

\* ------------------------------------------------------- Flasher.do_file
\* len(file.read(MAX_BYTES)) for a stream holding avail bytes, pos of them read
ReadLen(maxBytes, avail, pos) == Min(maxBytes, IF avail > pos THEN avail - pos ELSE 0)

\* `file_pos > max_pos`
TransferComplete_Strict(file_pos, max_pos) == file_pos > max_pos

\* `file_pos >= max_pos`
TransferComplete(file_pos, max_pos) == file_pos >= max_pos

\* `b"RETR" == res`: the frame compared with its 14 byte header still on
TransferAccepted_Raw(res) == <<"RETR">> = <<"header", Payload(res)>>

\* `b"RETR" == res[14:]`
TransferAccepted(res) == "RETR" = Payload(res)

\* an iteration of do_file that checks the read of wait() the way do checks its read
do_file_DrainChecked(st, file, file_pos, maxBytes, w, r1, r2) ==
    LET s1 == <<st[1], st[2] + 1>>
        s2 == <<s1[1] + 1, s1[2]>>
        n == ReadLen(maxBytes, file.avail, file_pos)
        data == Chunk(file.name, n)
        pos == file_pos + n
        base == [state |-> s2, sent |-> <<data>>, exc |-> "none", cause |-> "-", reads |-> 2,
                 file_pos |-> pos, wrote |-> TRUE, done |-> FALSE, delayed |-> FALSE]
    IN  IF w = "OSError"
        THEN [base EXCEPT !.state = s1, !.sent = <<>>, !.exc = "OSError", !.cause = "write",
                          !.reads = 0, !.file_pos = file_pos, !.wrote = FALSE]
        ELSE IF r1.kind = "oserror"
        THEN [base EXCEPT !.exc = "OSError", !.cause = "wait", !.reads = 1,
                          !.file_pos = file_pos]
        ELSE IF r1.kind = "none"
        THEN [base EXCEPT !.exc = "AbortFlashing", !.cause = "no_response", !.reads = 1]
        ELSE IF ~(pos >= file.size)
        THEN [base EXCEPT !.reads = 1, !.delayed = TRUE]
        ELSE IF r2.kind = "oserror"
        THEN [base EXCEPT !.exc = "OSError", !.cause = "read"]
        ELSE IF r2.kind = "none"
        THEN [base EXCEPT !.exc = "AbortFlashing", !.cause = "no_response"]
        ELSE IF "RETR" = Payload(r2)
        THEN [base EXCEPT !.state = r2.state, !.done = TRUE]
        ELSE [base EXCEPT !.state = r2.state, !.exc = "Exception", !.cause = "rejected"]

\* One iteration of the `while True` loop of do_file.
do_file(st, file, file_pos, maxBytes, w, r1, r2) ==
    LET s1 == <<st[1], st[2] + 1>>
        s2 == <<s1[1] + 1, s1[2]>>
        n == ReadLen(maxBytes, file.avail, file_pos)
        data == Chunk(file.name, n)
        pos == file_pos + n
        base == [state |-> s2, sent |-> <<data>>, exc |-> "none", cause |-> "-", reads |-> 2,
                 file_pos |-> pos, wrote |-> TRUE, done |-> FALSE, delayed |-> FALSE]
    IN  IF w = "OSError"
        THEN [base EXCEPT !.state = s1, !.sent = <<>>, !.exc = "OSError", !.cause = "write",
                          !.reads = 0, !.file_pos = file_pos, !.wrote = FALSE]
        ELSE IF r1.kind = "oserror"
        THEN [base EXCEPT !.exc = "OSError", !.cause = "wait", !.reads = 1,
                          !.file_pos = file_pos]
        ELSE IF ~TransferComplete(pos, file.size)
        THEN [base EXCEPT !.reads = 1, !.delayed = TRUE]
        ELSE IF r2.kind = "oserror"
        THEN [base EXCEPT !.exc = "OSError", !.cause = "read"]
        ELSE IF IsNone(r2)
        THEN [base EXCEPT !.exc = "AbortFlashing", !.cause = "no_response"]
        ELSE IF TransferAccepted(r2)
        THEN [base EXCEPT !.state = r2.state, !.done = TRUE]
        ELSE [base EXCEPT !.state = r2.state, !.exc = "Exception", !.cause = "rejected"]

\* --------------------------------------------- Flasher.resolve_file_data
\* kind: what the reference is ("stream": a BufferedReader, "url", "path");
\* urlOk: urlopen and its Content-Length header work; statOk: getsize (and open) work.
RefKinds == {"stream", "url", "path"}
resolve_file_data(kind, urlOk, statOk) ==
    IF kind = "stream"
    THEN IF statOk THEN [exc |-> "none", cause |-> "-", opens |-> FALSE]
         ELSE [exc |-> "OSError", cause |-> "stat_error", opens |-> FALSE]
    ELSE IF kind = "url" /\ urlOk THEN [exc |-> "none", cause |-> "-", opens |-> TRUE]
    ELSE IF statOk THEN [exc |-> "none", cause |-> "-", opens |-> TRUE]
    ELSE [exc |-> "AbortFlashing", cause |-> "unresolvable", opens |-> FALSE]

\* ------------------------------------------- Flasher.run / do_files script
\* The step that follows step s when it returns; rsc is the plugin's config reference.
NextStep(s, rsc) ==
    CASE s = "offer" -> "format"
      [] s = "format" -> "spacer"
      [] s = "spacer" -> "fw_resolve"
      [] s = "fw_resolve" -> "fw_header"
      [] s = "fw_header" -> "fw_file"
      [] s = "fw_file" -> "fw_done"
      [] s = "fw_done" -> IF rsc # "None" THEN "cfg_resolve" ELSE "cfg_done"
      [] s = "cfg_resolve" -> "cfg_header"
      [] s = "cfg_header" -> "cfg_file"
      [] s = "cfg_file" -> "cfg_done"
      [] s = "cfg_done" -> "finalize"
      [] s = "finalize" -> "terminate"
      [] s = "terminate" -> "done"

\* run without the try/except around the OFFER step
OfferExcept_Unwrapped(exc) == exc

\* the `except OSError` around the OFFER step of run
OfferExcept(exc) == IF exc = "OSError" THEN "AbortFlashing" ELSE exc

\* the config header naming the source file instead of autorun.scr
rsc_header_SourceName(rsc_file_name, rsc_file_size) == FileHeader(rsc_file_name, rsc_file_size)

\* header sent for the config file
rsc_header(rsc_file_name, rsc_file_size) == FileHeader(AutorunName, rsc_file_size)
\* header sent for the firmware file
npk_header(npk_file_name, npk_file_size) == FileHeader(npk_file_name, npk_file_size)

\* ------------------------------------------------ FlashInterface handlers
\* flash_until_stopped without `except AbortFlashing`
flash_until_stopped_NoCatch(exc, isClosed) ==
    IF exc = "FatalError" THEN [rpc |-> "exited", closed |-> TRUE, exit |-> "returned"]
    ELSE [rpc |-> "exited", closed |-> TRUE, exit |-> exc]

\* flash_until_stopped closing the connection in the FatalError handler, not in `finally`
flash_until_stopped_NoFinally(exc, isClosed) ==
    IF exc = "AbortFlashing" THEN [rpc |-> "discover", closed |-> isClosed, exit |-> "none"]
    ELSE IF exc = "FatalError" THEN [rpc |-> "exited", closed |-> TRUE, exit |-> "returned"]
    ELSE [rpc |-> "exited", closed |-> isClosed, exit |-> exc]

\* flash_until_stopped: where an exception leaving Flasher(...)/run takes the runner
flash_until_stopped_except(exc, isClosed) ==
    IF exc = "AbortFlashing" THEN [rpc |-> "discover", closed |-> isClosed, exit |-> "none"]
    ELSE IF exc = "FatalError" THEN [rpc |-> "exited", closed |-> TRUE, exit |-> "returned"]
    ELSE [rpc |-> "exited", closed |-> TRUE, exit |-> exc]

\* flash_once has no handler: every exception leaves it before connection.close()
flash_once_except(exc, isClosed) == [rpc |-> "exited", closed |-> isClosed, exit |-> exc]

\* ------------------------------------------------------------------ state
VARIABLES
    mode,        \* which entry point runs: flash_once or flash_until_stopped
    rpc,         \* where the runner is: discover, session, cooldown, exited
    closed,      \* connection.close() has been called
    exit,        \* how the runner left: none, returned, or the exception that escaped
    interface,   \* what get_interface_info returned
    spc,         \* the step of run the session is at (or ended at)
    state,       \* Flasher.state
    sent,        \* frames handed to conn.write in this session, in order
    outcome,     \* none, running, success, or the exception that ended the session
    cause,       \* why that exception was raised
    lastRes,     \* what the checked read of the last step returned: -, NoFrame, OSError,
                 \* or a frame: ack (expected token), nak (another token), short
    reads,       \* conn.read calls made by the last step
    unexpected,  \* some do() of this session got a frame without the expected token
    MAX_BYTES,   \* Flasher.MAX_BYTES
    rsc,         \* the config reference get_files returned
    file,        \* the file being transferred: name, declared size, bytes in the stream
    file_pos,    \* do_file's file_pos
    iters,       \* chunk sends of the current do_file
    delays,      \* times the current do_file took the time.sleep(0.005) branch
    open         \* streams opened for this session and not closed

vars == <<mode, rpc, closed, exit, interface, spc, state, sent, outcome, cause, lastRes,
          reads, unexpected, MAX_BYTES, rsc, file, file_pos, iters, delays, open>>

runner == <<rpc, closed, exit>>
xfer == <<file, file_pos, iters, delays>>

InitIn(m) ==
    /\ mode = m
    /\ rpc = "discover"
    /\ closed = FALSE
    /\ exit = "none"
    /\ interface = NoBoard
    /\ spc = "idle"
    /\ state = <<0, 0>>
    /\ sent = <<>>
    /\ outcome = "none"
    /\ cause = "-"
    /\ lastRes = "-"
    /\ reads = 0
    /\ unexpected = FALSE
    /\ MAX_BYTES \in 1..MaxChunk
    /\ rsc = "None"
    /\ file = NoFile
    /\ file_pos = 0
    /\ iters = 0
    /\ delays = 0
    /\ open = {}

\* an exception leaves Flasher(...) or run and reaches the entry point
Leave(exc) ==
    LET h == IF mode = "until_stopped" THEN flash_until_stopped_except(exc, closed)
             ELSE flash_once_except(exc, closed)
    IN  /\ rpc' = h.rpc
        /\ closed' = h.closed
        /\ exit' = h.exit

\* run returned: the cooldown sleep of flash_until_stopped, or the close of flash_once
Returned ==
    IF mode = "until_stopped"
    THEN rpc' = "cooldown" /\ UNCHANGED <<closed, exit>>
    ELSE rpc' = "exited" /\ closed' = TRUE /\ exit' = "returned"

\* what a step of run that produced d leaves behind; r2 is what its checked
\* read (if it got to one) returned, expected the token it awaits
StepEffect(d, exc, expected, r2) ==
    /\ state' = d.state
    /\ sent' = sent \o d.sent
    /\ reads' = d.reads
    /\ lastRes' = IF d.reads = 2 THEN Seen(expected, r2) ELSE "-"
    /\ cause' = d.cause
    /\ unexpected' = (unexpected \/ lastRes' \in {"nak", "short"})
    /\ IF exc = "none"
       THEN /\ spc' = NextStep(spc, rsc')
            /\ IF spc' = "done"
               THEN outcome' = "success" /\ Returned
               ELSE outcome' = "running" /\ UNCHANGED runner
       ELSE /\ spc' = spc
            /\ outcome' = exc
            /\ Leave(exc)

\* a step that failed before it called do
Failed(exc, why) ==
    [state |-> state, sent |-> <<>>, exc |-> exc, cause |-> why, reads |-> 0,
     ok |-> FALSE]

\* -------------------------------------------------------------- the runner
\* connection.get_interface_info() returns i. With an interface (always, in
\* flash_once): time.sleep(7) in flash_until_stopped, then Flasher(...) runs
\* load_config and run starts. Without one, flash_until_stopped sleeps 10 s.
Discover ==
    /\ rpc = "discover"
    /\ \E i \in Boards \cup {NoBoard}, readOk, importOk, ctorOk \in BOOLEAN :
        LET c == load_config(readOk, importOk, ctorOk)
        IN  /\ interface' = i
            /\ IF mode = "until_stopped" /\ i = NoBoard
               THEN /\ rpc' = "cooldown"
                    /\ UNCHANGED <<closed, exit, spc, outcome, cause>>
               ELSE /\ cause' = c.cause
                    /\ IF c.exc = "none"
                       THEN /\ rpc' = "session"
                            /\ spc' = "offer"
                            /\ outcome' = "running"
                            /\ UNCHANGED <<closed, exit>>
                       ELSE /\ spc' = "idle"
                            /\ outcome' = c.exc
                            /\ Leave(c.exc)
    /\ state' = <<0, 0>>
    /\ sent' = <<>>
    /\ lastRes' = "-"
    /\ reads' = 0
    /\ unexpected' = FALSE
    /\ rsc' = "None"
    /\ file' = NoFile
    /\ file_pos' = 0
    /\ iters' = 0
    /\ delays' = 0
    /\ open' = {}
    /\ UNCHANGED <<mode, MAX_BYTES>>

\* time.sleep(10) is over; interface = None
Cooldown ==
    /\ rpc = "cooldown"
    /\ rpc' = "discover"
    /\ interface' = NoBoard
    /\ UNCHANGED <<mode, closed, exit, spc, state, sent, outcome, cause, lastRes, reads,
                   unexpected, MAX_BYTES, rsc, xfer, open>>

\* The operator interrupts (KeyboardInterrupt) wherever the runner is; a
\* session in progress is abandoned and its Flasher dropped.
Interrupt ==
    /\ rpc # "exited"
    /\ Leave("KeyboardInterrupt")
    /\ outcome' = IF rpc = "session" THEN "KeyboardInterrupt" ELSE "none"
    /\ interface' = NoBoard
    /\ spc' = "idle"
    /\ state' = <<0, 0>>
    /\ sent' = <<>>
    /\ cause' = "-"
    /\ lastRes' = "-"
    /\ reads' = 0
    /\ unexpected' = FALSE
    /\ rsc' = "None"
    /\ file' = NoFile
    /\ file_pos' = 0
    /\ iters' = 0
    /\ delays' = 0
    /\ open' = {}
    /\ UNCHANGED <<mode, MAX_BYTES>>

\* ------------------------------------------------------------ the session
InSession(step) == rpc = "session" /\ spc = step

\* a plain step of run: do(data, response) and nothing else
DoStep(step, data, response) ==
    /\ InSession(step)
    /\ \E w \in WriteResults : \E r1 \in WaitAfter(w) : \E r2 \in ReadAfter(w, r1) :
        LET d == do(state, data, response, w, r1, r2)
        IN  /\ UNCHANGED rsc
            /\ StepEffect(d, d.exc, response, r2)
    /\ UNCHANGED <<mode, interface, MAX_BYTES, xfer, open>>

\* self.info = info; self.state = [0, 0]; do(b"OFFR\n\n", b"YACK\n") inside try/except OSError.
\* Without an interface (flash_once only) self.info.mac raises in write.
Offer ==
    /\ InSession("offer")
    /\ \E w \in WriteResults : \E r1 \in WaitAfter(w) : \E r2 \in ReadAfter(w, r1) :
        LET d == IF interface = NoBoard
                 THEN [state |-> <<0, 1>>, sent |-> <<>>, exc |-> "AttributeError",
                       cause |-> "no_interface", reads |-> 0, ok |-> FALSE]
                 ELSE do(<<0, 0>>, OFFR, "YACK\n", w, r1, r2)
        IN  /\ UNCHANGED rsc
            /\ StepEffect(d, OfferExcept(d.exc), "YACK\n", r2)
    /\ UNCHANGED <<mode, interface, MAX_BYTES, xfer, open>>

Format == DoStep("format", EMPTY, "STRT")

Spacer == DoStep("spacer", EMPTY, "RETR")

\* do_files, first part: plugin.get_files, the npk check and resolve_file_data(npk)
ResolveFirmware ==
    /\ InSession("fw_resolve")
    /\ \E raises, urlOk, statOk \in BOOLEAN,
          npk, r \in RefKinds \cup {"None"},
          size \in 0..MaxFileSize : \E avail \in Avail(size) :
        LET got == {FirmwareName : x \in {npk} \cap {"stream"}}
                   \cup {ConfigName : x \in {r} \cap {"stream"}}
            rf == resolve_file_data(npk, urlOk, statOk)
            d == IF raises THEN Failed("Exception", "plugin_error")
                 ELSE IF npk = "None" THEN Failed("AbortFlashing", "no_firmware")
                 ELSE Failed(rf.exc, rf.cause)
            resolved == d.exc = "none"
        IN  /\ rsc' = IF raises THEN "None" ELSE r
            /\ open' = IF raises THEN {}
                       ELSE IF resolved /\ rf.opens THEN got \cup {FirmwareName}
                       ELSE got
            /\ file' = IF resolved
                       THEN [name |-> FirmwareName, size |-> size, avail |-> avail]
                       ELSE NoFile
            /\ StepEffect(d, d.exc, NoResponse, NoFrame)
    /\ UNCHANGED <<mode, interface, MAX_BYTES, file_pos, iters, delays>>

\* do(FILE header of the firmware, RETR)
SendFirmwareHeader ==
    DoStep("fw_header", npk_header(file.name, file.size), "RETR")

\* one iteration of do_file's loop on the current file
SendChunk(step) ==
    /\ InSession(step)
    /\ iters < MaxIters
    /\ \E w \in WriteResults : \E r1 \in WaitAfter(w) : \E r2 \in ReadAfter(w, r1) :
        LET d == do_file(state, file, file_pos, MAX_BYTES, w, r1, r2)
        IN  /\ state' = d.state
            /\ sent' = sent \o d.sent
            /\ reads' = d.reads
            /\ lastRes' = IF d.reads = 2 THEN Seen("RETR", r2) ELSE "-"
            /\ cause' = d.cause
            /\ file_pos' = d.file_pos
            /\ iters' = IF d.wrote THEN iters + 1 ELSE iters
            /\ delays' = IF d.delayed THEN delays + 1 ELSE delays
            /\ open' = IF d.done THEN open \ {file.name} ELSE open
            /\ IF d.exc # "none"
               THEN spc' = spc /\ outcome' = d.exc /\ Leave(d.exc)
               ELSE /\ spc' = IF d.done THEN NextStep(spc, rsc) ELSE spc
                    /\ UNCHANGED <<outcome, runner>>
    /\ UNCHANGED <<mode, interface, unexpected, MAX_BYTES, rsc, file>>

SendFirmware == SendChunk("fw_file")

FirmwareDone == DoStep("fw_done", EMPTY, "RETR")

\* `if rsc:` taken: resolve_file_data(rsc)
ResolveConfig ==
    /\ InSession("cfg_resolve")
    /\ \E urlOk, statOk \in BOOLEAN, size \in 0..MaxFileSize : \E avail \in Avail(size) :
        LET rf == resolve_file_data(rsc, urlOk, statOk)
            d == Failed(rf.exc, rf.cause)
            resolved == rf.exc = "none"
        IN  /\ UNCHANGED rsc
            /\ open' = IF resolved /\ rf.opens THEN open \cup {ConfigName} ELSE open
            /\ file' = IF resolved
                       THEN [name |-> ConfigName, size |-> size, avail |-> avail]
                       ELSE file
            /\ file_pos' = IF resolved THEN 0 ELSE file_pos
            /\ iters' = IF resolved THEN 0 ELSE iters
            /\ delays' = IF resolved THEN 0 ELSE delays
            /\ StepEffect(d, d.exc, NoResponse, NoFrame)
    /\ UNCHANGED <<mode, interface, MAX_BYTES>>

\* do(FILE header naming autorun.scr, RETR)
SendConfigHeader ==
    DoStep("cfg_header", rsc_header(file.name, file.size), "RETR")

SendConfig == SendChunk("cfg_file")

ConfigDone == DoStep("cfg_done", EMPTY, "RETR")

Finalize == DoStep("finalize", FINALIZE, "WTRM")

Terminate == DoStep("terminate", TERM, NoResponse)

Next ==
    \/ Discover
    \/ Cooldown
    \/ Interrupt
    \/ Offer
    \/ Format
    \/ Spacer
    \/ ResolveFirmware
    \/ SendFirmwareHeader
    \/ SendFirmware
    \/ FirmwareDone
    \/ ResolveConfig
    \/ SendConfigHeader
    \/ SendConfig
    \/ ConfigDone
    \/ Finalize
    \/ Terminate

\* FlashInterface.flash_until_stopped
Init == InitIn("until_stopped")
Spec == Init /\ [][Next]_vars

\* FlashInterface.flash_once: one discovery, one session, no loop and no sleep
InitOnce == InitIn("once")
NextOnce ==
    \/ Discover
    \/ Interrupt
    \/ Offer
    \/ Format
    \/ Spacer
    \/ ResolveFirmware
    \/ SendFirmwareHeader
    \/ SendFirmware
    \/ FirmwareDone
    \/ ResolveConfig
    \/ SendConfigHeader
    \/ SendConfig
    \/ ConfigDone
    \/ Finalize
    \/ Terminate
SpecOnce == InitOnce /\ [][NextOnce]_vars

\* ================================================================ claims
FileSteps == {"fw_file", "cfg_file"}
Max(a, b) == IF a > b THEN a ELSE b
Ceil(s, c) == (s + c - 1) \div c

\* the kind of frame f, as the session script names it
FrameClass(f) ==
    IF f = OFFR THEN "OFFR"
    ELSE IF f = EMPTY THEN "empty"
    ELSE IF f = FINALIZE THEN "FILE"
    ELSE IF f = TERM THEN "TERM"
    ELSE IF f.kind = "header" /\ f.name = AutorunName THEN "config header"
    ELSE IF f.kind = "header" /\ f.name = FirmwareName THEN "firmware header"
    ELSE IF f.kind = "chunk" /\ f.name = FirmwareName THEN "firmware chunk"
    ELSE IF f.kind = "chunk" /\ f.name = ConfigName THEN "config chunk"
    ELSE "other"

\* the classes of the frames of seq, a run of chunks of one file counted once
RECURSIVE Squeeze(_)
Squeeze(seq) ==
    IF seq = <<>> THEN <<>>
    ELSE LET c == FrameClass(seq[Len(seq)])
             front == Squeeze(SubSeq(seq, 1, Len(seq) - 1))
         IN  IF /\ c \in {"firmware chunk", "config chunk"}
                /\ front # <<>>
                /\ front[Len(front)] = c
             THEN front
             ELSE Append(front, c)

IsPrefix(p, q) == Len(p) <= Len(q) /\ p = SubSeq(q, 1, Len(p))

FullScript ==
    <<"OFFR", "empty", "empty", "firmware header", "firmware chunk", "empty",
      "config header", "config chunk", "empty", "FILE", "TERM">>

\* every awaited read so far returned the expected token, and the provider
\* returned a config (known once get_files has run)
ScriptCase ==
    /\ ~unexpected
    /\ rsc # "None" \/ spc \in {"idle", "offer", "format", "spacer", "fw_resolve"}

\* C1: in a session whose awaited reads all carry the expected token and whose
\* provider returns firmware and config, the frames sent are, in order, OFFR,
\* empty, empty, firmware header, firmware chunks, empty, autorun.scr header,
\* config chunks, empty, FILE, TERM and nothing else; success is reported only
\* once TERM, the last frame, has been sent.
C1_SessionScript ==
    ScriptCase =>
        /\ IsPrefix(Squeeze(sent), FullScript)
        /\ outcome = "success" =>
            /\ Squeeze(sent) = FullScript
            /\ sent[Len(sent)] = TERM

C1_Witness ==
    /\ outcome = "success"
    /\ ScriptCase
    /\ Len(sent) > Len(FullScript)

\* C2: when the checked read of a step of do, or of do_file's final chunk,
\* returns no frame, the session has ended with AbortFlashing, and no frame is
\* sent after that in the session.
C2_NoResponseAborts ==
    /\ [](lastRes = "NoFrame" => outcome = "AbortFlashing" /\ rpc # "session")
    /\ [][lastRes = "NoFrame" => Len(sent') <= Len(sent)]_vars

C2_Witness ==
    /\ lastRes = "NoFrame"
    /\ spc \in FileSteps
    /\ iters >= 1
    /\ outcome = "AbortFlashing"

\* a session starts for board b with a fresh Flasher
StartsSessionFor(b) ==
    /\ Discover
    /\ interface' = b
    /\ rpc' = "session"
    /\ spc' = "offer"
    /\ state' = <<0, 0>>
    /\ sent' = <<>>

\* C3: when the OFFER step gets no response, flash_until_stopped does not end:
\* it is back at discovery with the connection open, and for any board then
\* discovered a new session can start with a fresh Flasher.
C3_RunnerSurvivesOfferTimeout ==
    (spc = "offer" /\ lastRes = "NoFrame") =>
        /\ outcome = "AbortFlashing"
        /\ rpc = "discover"
        /\ ~closed
        /\ exit = "none"
        /\ \A b \in Boards : ENABLED StartsSessionFor(b)

C3_Witness ==
    /\ spc = "offer"
    /\ lastRes = "NoFrame"
    /\ reads = 2
    /\ rpc = "discover"

\* C4 (as claimed): a frame other than RETR after the last chunk ends the
\* session with AbortFlashing and the runner goes on to the next board.
C4_RejectedTransferRecoverable ==
    (spc \in FileSteps /\ iters >= 1 /\ lastRes \in {"nak", "short"}) =>
        /\ outcome = "AbortFlashing"
        /\ rpc # "exited"

\* C5 (as claimed): a frame without the expected token at an awaited step of do
\* ends the session with AbortFlashing.
C5_UnexpectedTokenAborts ==
    unexpected => outcome = "AbortFlashing"

\* the chunk loop of the current file has taken its completion branch
LoopEnded == iters >= 1 /\ file_pos >= file.size

\* C6 (as claimed): for a stream holding exactly the declared S bytes the loop
\* makes ceil(S / C) chunk sends and has sent S bytes when it ends.
C6_CeilIterations ==
    (file.avail = file.size /\ LoopEnded) =>
        /\ iters = Ceil(file.size, MAX_BYTES)
        /\ file_pos = file.size

\* C6 (amended): for a stream holding exactly the declared S bytes the loop
\* makes ceil(S / C) chunk sends, or one when S = 0, never more, and has sent S
\* bytes when it ends.
C6_CeilIterationsOrOne ==
    file.avail = file.size =>
        /\ iters <= Max(1, Ceil(file.size, MAX_BYTES))
        /\ file_pos <= file.size
        /\ LoopEnded =>
            /\ iters = Max(1, Ceil(file.size, MAX_BYTES))
            /\ file_pos = file.size

C6_Witness ==
    /\ file.avail = file.size
    /\ file.size > MAX_BYTES
    /\ file.size % MAX_BYTES # 0
    /\ LoopEnded
    /\ spc \notin FileSteps

\* the first iteration of do_file on an empty file of declared size 0 sends its chunk
ZeroFileFirstSend ==
    /\ rpc = "session"
    /\ spc \in FileSteps
    /\ file.size = 0
    /\ file.avail = 0
    /\ iters = 0
    /\ iters' = 1

\* C7: a zero-length file finishes on the first iteration: the read returns no
\* bytes, the completion branch is taken (the confirmation is read) without the
\* delay branch, and with RETR the transfer returns and the session goes on.
C7_ZeroLengthFile ==
    [][ZeroFileFirstSend =>
        /\ file_pos' = 0
        /\ delays' = 0
        /\ sent' = Append(sent, Chunk(file.name, 0))
        /\ cause' # "wait" => reads' = 2
        /\ lastRes' = "ack" =>
            /\ spc' = NextStep(spc, rsc)
            /\ outcome' = "running"
            /\ rpc' = "session"
            /\ file.name \notin open']_vars

C7_Witness ==
    /\ file.size = 0
    /\ file.avail = 0
    /\ iters = 1
    /\ delays = 0
    /\ lastRes = "ack"
    /\ spc = "fw_done"
    /\ outcome = "running"

\* C8: whenever flash_until_stopped has exited, by FatalError, by an uncaught
\* exception of a session or by interrupt, the connection has been closed.
C8_ClosedOnExit ==
    (mode = "until_stopped" /\ rpc = "exited") => closed

C8_Witness ==
    /\ mode = "until_stopped"
    /\ rpc = "exited"
    /\ exit \notin {"returned", "KeyboardInterrupt"}
    /\ closed

\* C9 (as claimed): a session that ended in success or in AbortFlashing is
\* followed by the cooldown sleep before discovery is called again.
C9_CooldownAfterSession ==
    [][(rpc = "session" /\ outcome' \in {"success", "AbortFlashing"}) => rpc' = "cooldown"]_vars

\* C10 (as claimed): every failure to construct the File Provider leaves
\* load_config as FatalError; the runner then starts no session, sends no frame
\* and ends with the connection closed.
C10_ProviderFailureIsFatal ==
    cause \in {"config_not_found", "import_error", "ctor_error"} =>
        /\ outcome = "FatalError"
        /\ sent = <<>>
        /\ rpc = "exited"
        /\ exit = "returned"
        /\ closed

\* C11 (as claimed): once a session is over, by success or by any exception
\* that ended run, every file stream opened for it (by the File Provider or by
\* resolve_file_data) has been closed.
C11_StreamsClosedAfterSession ==
    rpc # "session" => open = {}

\* a frame was accepted by the step just taken
Accepted(res) == res \in {"ack", "nak", "short"}

\* C12 (as claimed): a step that transmits a frame and accepts no response
\* increments the first counter of the state pair by one and leaves the second
\* unchanged.
C12_SendKeepsReceived ==
    [][(rpc = "session" /\ Len(sent') = Len(sent) + 1 /\ ~Accepted(lastRes'))
         => state' = <<state[1] + 1, state[2]>>]_vars

\* C12 (amended): the state pair is (0,0) when a session starts. A step that
\* transmits a frame increments both counters by one, unless it accepts a
\* response frame, whose pair then replaces the whole state; a write that fails
\* leaves only the second counter incremented; no other step of a session
\* changes the pair.
C12_FrameEffect ==
    /\ [](InSession("offer") => state = <<0, 0>>)
    /\ [][rpc = "session" =>
            IF Len(sent') = Len(sent) + 1
            THEN IF Accepted(lastRes')
                 THEN state' \in FrameStates
                 ELSE state' = <<state[1] + 1, state[2] + 1>>
            ELSE IF cause' = "write"
            THEN state' = <<state[1], state[2] + 1>>
            ELSE outcome' # "KeyboardInterrupt" => state' = state]_vars

\* the board's pair (0,0) replaced the locally counted one at the second step
C12_Witness ==
    /\ InSession("spacer")
    /\ Len(sent) = 2
    /\ lastRes = "ack"
    /\ state = <<0, 0>>

\* C13 (as claimed): when the checked read of an awaited step of do, or of the
\* last chunk of do_file, returned a frame shorter than the 14-byte header, the
\* session ended with AbortFlashing.
C13_ShortFrameAborts ==
    lastRes = "short" => outcome = "AbortFlashing"

TransportFaults == {"write", "wait", "read"}

\* C14: an OSError raised by the write, by the read inside wait or by the
\* checked read of the OFFER step leaves run as AbortFlashing, never as OSError.
C14_OfferFaultIsAbort ==
    spc = "offer" =>
        /\ outcome # "OSError"
        /\ cause \in TransportFaults => outcome = "AbortFlashing"

\* the read inside wait() of the OFFER step raised; the runner went on to discover
C14_Witness ==
    /\ spc = "offer"
    /\ cause = "wait"
    /\ reads = 1
    /\ outcome = "AbortFlashing"
    /\ rpc = "discover"

\* C15 (as claimed): an OSError raised by the Transport at a step after OFFER
\* reaches flash_until_stopped as AbortFlashing, and the runner goes on instead
\* of terminating.
C15_LaterFaultIsAbort ==
    (mode = "until_stopped" /\ spc \notin {"idle", "offer"} /\ cause \in TransportFaults)
        => (outcome = "AbortFlashing" /\ rpc # "exited")

\* the session script when the provider returns no config
NoConfigScript ==
    <<"OFFR", "empty", "empty", "firmware header", "firmware chunk", "empty",
      "FILE", "TERM">>

\* C16 (as claimed): when the File Provider returned no config, the frames
\* sent contain no autorun.scr header and no config chunk, and exactly one
\* empty frame lies between the last firmware chunk and the FILE frame.
C16_NoConfigOneDone ==
    rsc = "None" => IsPrefix(Squeeze(sent), NoConfigScript)

\* C17 (as claimed): a reference that resolve_file_data cannot resolve, an open
\* stream whose backing file cannot be stat-ed included, and a firmware
\* reference that is absent, end the session with AbortFlashing.
C17_UnresolvableIsAbort ==
    cause \in {"stat_error", "unresolvable", "no_firmware"} => outcome = "AbortFlashing"

\* the steps of a session that call do with a response to await
AwaitedSteps ==
    {"offer", "format", "spacer", "fw_header", "fw_done", "cfg_header", "cfg_done",
     "finalize"}

\* an awaited step of do transmits its frame and no Transport call raises
AwaitedStepRuns ==
    /\ rpc = "session"
    /\ spc \in AwaitedSteps
    /\ Len(sent') = Len(sent) + 1
    /\ cause' \notin TransportFaults

\* C18 (as claimed): an awaited step of do performs exactly one Transport
\* receive between sending its command and checking the acknowledgment.
C18_OneReceivePerStep ==
    [][AwaitedStepRuns => reads' = 1]_vars

\* C18 (amended): an awaited step of do performs exactly two Transport
\* receives between sending its command and checking the acknowledgment, the
\* one inside wait and the checked one; when the second returns no frame the
\* step fails with AbortFlashing.
C18_TwoReceivesPerStep ==
    [][AwaitedStepRuns =>
         /\ reads' = 2
         /\ lastRes' = "NoFrame" => outcome' = "AbortFlashing"]_vars

\* the format step made its two receives and the second one found no frame
C18_Witness ==
    /\ spc = "format"
    /\ Len(sent) = 2
    /\ reads = 2
    /\ lastRes = "NoFrame"
    /\ outcome = "AbortFlashing"

\* an iteration of do_file sends its chunk and the drain read returns
ChunkSent ==
    /\ rpc = "session"
    /\ spc \in FileSteps
    /\ Len(sent') = Len(sent) + 1
    /\ cause' # "wait"

\* C19: after each chunk do_file makes exactly one drain read, and whatever it
\* returns has no effect. Before the last chunk the iteration makes that one
\* read only, the state pair moves by the send alone and the transfer goes on.
\* At the last chunk the one further read decides alone: an abort means it
\* found no frame, leaving the transfer means it found RETR, and the state
\* pair is replaced only by the frame it returned.
C19_DrainReadIgnored ==
    [][ChunkSent =>
         IF file_pos' < file.size
         THEN /\ reads' = 1
              /\ state' = <<state[1] + 1, state[2] + 1>>
              /\ rpc' = "session" /\ spc' = spc /\ outcome' = "running"
         ELSE /\ reads' = 2
              /\ outcome' = "AbortFlashing" <=> lastRes' = "NoFrame"
              /\ spc' # spc <=> lastRes' = "ack"
              /\ IF Accepted(lastRes')
                 THEN state' \in FrameStates
                 ELSE state' = <<state[1] + 1, state[2] + 1>>]_vars

\* a chunk before the last was sent and drained; the transfer goes on
C19_Witness ==
    /\ InSession("fw_file")
    /\ iters >= 1
    /\ delays >= 1
    /\ reads = 1
    /\ file_pos < file.size
    /\ outcome = "running"

\* C20 (as claimed): do_file terminates whenever every read returns. Its loop
\* is left only once file_pos has reached the declared size, so every
\* iteration after which the loop goes on has advanced file_pos.
C20_LoopAdvances ==
    [][(ChunkSent /\ rpc' = "session" /\ spc' = spc) => file_pos' > file_pos]_vars

\* C21 (as claimed): when flash_once has ended, after a successful session,
\* after a session that raised AbortFlashing or any other exception, or after
\* a FatalError from constructing the Flasher, the connection has been closed.
C21_OnceClosesConnection ==
    (mode = "once" /\ rpc = "exited" /\ exit # "KeyboardInterrupt") => closed

====
